---- MODULE Spec2Model ----
(***************************************************************************)
(* Model of scripts/create_cita_config.py: the `create` and `append`       *)
(* subcommands acting on the on-disk tree of one chain (output_root).      *)
(*                                                                         *)
(* Text is modelled as sequences of one-character strings, so that the     *)
(* formatting of nodes.list ('{}:{}\n') and its parsing by                 *)
(* AddressList.from_str are what the code does, character by character.    *)
(* TOML documents are modelled as records (toml.load / toml.dump keep the  *)
(* keys and drop comments).                                                *)
(***************************************************************************)
EXTENDS Integers, Sequences, FiniteSets, TLC

VARIABLES
    fs,         \* the tree under output_root (template configs, nodes.list, node directories)
    nodes,      \* ChainInfo.nodes of the process that ran last
    status,     \* how the last process ended
    called,     \* ChainInfo methods the last process entered, in order
    appended,   \* history: the endpoints of the append_node calls that completed
    requested,  \* history: the endpoints the create run and the append runs on the chain were given
    created,    \* history: <<args>> of the create run that made the chain, else << >>
    alist,      \* an AddressList object: what from_str returned and later calls made of it
    ret,        \* the last call on AddressList: its arguments and how it returned
    rdir,       \* a resource directory: whether it exists and the files under it
    hret,       \* the last generate_prevhash call: what it returned
    pc,         \* for each append process, the statement of append_node it is at
    loc,        \* for each append process, its ChainInfo.nodes and its local variables
    emptied,    \* the directories whose network.toml holds no peers table
    listed      \* history: the node ids the lines of nodes.list were written for

chain_vars == <<fs, nodes, status, called, appended, requested, created>>

addr_vars == <<alist, ret>>

hash_vars == <<rdir, hret>>

step_vars == <<pc, loc, emptied, listed>>

run_vars == <<nodes, status, called, appended, requested, created>>

vars == <<fs, nodes, status, called, appended, requested, created, alist, ret, rdir, hret,
          pc, loc, emptied, listed>>

-----------------------------------------------------------------------------
(* Bounds and input sets *)

MaxNodes == 3

NL == "\n"
COMMA == ","
COLON == ":"

node_prefix == "test-chain"

\* hosts the command line can deliver: from_str only requires a non-empty
\* text without ':' and without the delimiter
Endpoints ==
    { [host |-> <<"a">>, port |-> 80],
      [host |-> <<"b">>, port |-> 80],
      [host |-> <<"a">>, port |-> 9],
      [host |-> <<NL, "b">>, port |-> 80],
      [host |-> <<"a", NL, "b">>, port |-> 80] }

\* --grpc_port, --jsonrpc_port, --ws_port: the defaults and one other choice
PortArgs ==
    { [grpc_port |-> 5000, jsonrpc_port |-> 1337, ws_port |-> 4337],
      [grpc_port |-> 7000, jsonrpc_port |-> 8000, ws_port |-> 9000] }

\* --authorities values (an empty list stands for the option left out)
AuthorityArgs == { << >>, <<"0xA9">> }

\* --signer values of the append subcommand ("" stands for the option left out)
SignerArgs == { "", "S1" }

\* what the external create_key_addr tool can write
KeyPairs ==
    { [address |-> "0xA1", secret |-> "K1"],
      [address |-> "0xA2", secret |-> "K2"] }

RECURSIVE SeqsUpTo(_, _)
SeqsUpTo(S, n) ==
    IF n = 0 THEN { << >> }
    ELSE LET shorter == SeqsUpTo(S, n - 1)
         IN shorter \cup { Append(s, x) : s \in { t \in shorter : Len(t) = n - 1 }, x \in S }

SeqsOfLen(S, n) == { s \in SeqsUpTo(S, n) : Len(s) = n }

-----------------------------------------------------------------------------
(* Text: str.split, str.replace, int(), '{}'.format(int) *)

RECURSIVE Split(_, _)
Split(s, d) ==
    IF \A i \in 1..Len(s) : s[i] # d
    THEN <<s>>
    ELSE LET i == CHOOSE k \in 1..Len(s) : s[k] = d /\ \A j \in 1..(k - 1) : s[j] # d
         IN <<SubSeq(s, 1, i - 1)>> \o Split(SubSeq(s, i + 1, Len(s)), d)

Replace(s, old, new) == [i \in 1..Len(s) |-> IF s[i] = old THEN new ELSE s[i]]

Digits == <<"0", "1", "2", "3", "4", "5", "6", "7", "8", "9">>

IsDigit(c) == \E d \in 1..10 : Digits[d] = c

DigitVal(c) == (CHOOSE d \in 1..10 : Digits[d] = c) - 1

\* int() accepts a non-empty run of decimal digits (among the characters modelled)
IsNumeral(s) == Len(s) > 0 /\ \A i \in 1..Len(s) : IsDigit(s[i])

RECURSIVE StrToInt(_)
StrToInt(s) ==
    IF Len(s) = 0 THEN 0
    ELSE 10 * StrToInt(SubSeq(s, 1, Len(s) - 1)) + DigitVal(s[Len(s)])

RECURSIVE IntToStr(_)
IntToStr(n) ==
    IF n < 10 THEN <<Digits[n + 1]>>
    ELSE IntToStr(n \div 10) \o <<Digits[(n % 10) + 1]>>

-----------------------------------------------------------------------------
(* AddressList *)

HasAddress(addrs, host, port) ==
    \E i \in 1..Len(addrs) : addrs[i].host = host /\ addrs[i].port = port

\* (variant for C12: the endpoint is appended without the comparison)
add_after_check_unchecked(addrs, host, port) ==
    [ok |-> TRUE, err |-> "",
     addrs |-> Append(addrs, [host |-> host, port |-> port, signer |-> ""])]

add_after_check(addrs, host, port) ==
    IF HasAddress(addrs, host, port)
    THEN [ok |-> FALSE, err |-> "DuplicateError", addrs |-> addrs]
    ELSE [ok |-> TRUE, err |-> "",
          addrs |-> Append(addrs, [host |-> host, port |-> port, signer |-> ""])]

\* (variant for C13: the port is not tested against [1, 65535])
RECURSIVE ParseSegments_any_port(_, _)
ParseSegments_any_port(segs, addrs) ==
    IF segs = << >> THEN [ok |-> TRUE, err |-> "", addrs |-> addrs]
    ELSE LET addr_str == Head(segs) IN
         IF addr_str = << >> THEN ParseSegments_any_port(Tail(segs), addrs)
         ELSE LET addr == Split(addr_str, COLON) IN
              IF Len(addr) = 2 /\ addr[1] # << >> /\ addr[2] # << >>
              THEN IF ~IsNumeral(addr[2])
                   THEN [ok |-> FALSE, err |-> "ValueError", addrs |-> addrs]
                   ELSE LET r == add_after_check(addrs, addr[1], StrToInt(addr[2])) IN
                        IF r.ok THEN ParseSegments_any_port(Tail(segs), r.addrs) ELSE r
              ELSE [ok |-> FALSE, err |-> "ParseError", addrs |-> addrs]

RECURSIVE ParseSegments(_, _)
ParseSegments(segs, addrs) ==
    IF segs = << >> THEN [ok |-> TRUE, err |-> "", addrs |-> addrs]
    ELSE LET addr_str == Head(segs) IN
         IF addr_str = << >> THEN ParseSegments(Tail(segs), addrs)
         ELSE LET addr == Split(addr_str, COLON) IN
              IF Len(addr) = 2 /\ addr[1] # << >> /\ addr[2] # << >>
              THEN IF ~IsNumeral(addr[2])
                   THEN [ok |-> FALSE, err |-> "ValueError", addrs |-> addrs]
                   ELSE LET port == StrToInt(addr[2]) IN
                        IF port > 65535 \/ port < 1
                        THEN [ok |-> FALSE, err |-> "ParseError", addrs |-> addrs]
                        ELSE LET r == add_after_check(addrs, addr[1], port) IN
                             IF r.ok THEN ParseSegments(Tail(segs), r.addrs) ELSE r
              ELSE [ok |-> FALSE, err |-> "ParseError", addrs |-> addrs]

\* size_check is << >> for None and <<n>> for a number; `if size_check and ...`
from_str(addrs_str, size_check, delimiter) ==
    LET r == ParseSegments(Split(addrs_str, delimiter), << >>) IN
    IF ~r.ok THEN r
    ELSE IF size_check # << >> /\ size_check[1] # 0 /\ size_check[1] # Len(r.addrs)
         THEN [ok |-> FALSE, err |-> "SizeMismatchError", addrs |-> r.addrs]
         ELSE r

from_str_get_one(addrs_str, delimiter) == from_str(addrs_str, <<1>>, delimiter)

\* (variant for C14: the signers are assigned before the sizes are compared)
add_signers_check_late(addrs, signers) ==
    LET assigned == [idx \in 1..Len(addrs) |->
                        IF idx <= Len(signers)
                        THEN [addrs[idx] EXCEPT !.signer = signers[idx]]
                        ELSE addrs[idx]]
    IN IF Len(addrs) # Len(signers)
       THEN [ok |-> FALSE, err |-> "SizeMismatchError", addrs |-> assigned]
       ELSE [ok |-> TRUE, err |-> "", addrs |-> assigned]

add_signers(addrs, signers) ==
    IF Len(addrs) # Len(signers)
    THEN [ok |-> FALSE, err |-> "SizeMismatchError", addrs |-> addrs]
    ELSE [ok |-> TRUE, err |-> "",
          addrs |-> [idx \in 1..Len(addrs) |-> [addrs[idx] EXCEPT !.signer = signers[idx]]]]

\* the text of one endpoint as the command line gives it and as nodes.list stores it
FormatAddress(host, port) == host \o <<COLON>> \o IntToStr(port)

-----------------------------------------------------------------------------
(* AuthorityList and generate_authorities *)

AuthorityList_add_after_check(addrs, addr) ==
    IF \E i \in 1..Len(addrs) : addrs[i] = addr
    THEN [ok |-> FALSE, err |-> "DuplicateError", addrs |-> addrs]
    ELSE [ok |-> TRUE, err |-> "", addrs |-> Append(addrs, addr)]

\* (variant for C15: each secret is put in front of the ones before it)
RECURSIVE GenerateLoop_prepend(_, _, _)
GenerateLoop_prepend(keys, authorities, signers) ==
    IF keys = << >>
    THEN [ok |-> TRUE, err |-> "", authorities |-> authorities, signers |-> signers]
    ELSE LET r == AuthorityList_add_after_check(authorities, Head(keys).address) IN
         IF ~r.ok
         THEN [ok |-> FALSE, err |-> r.err, authorities |-> authorities, signers |-> signers]
         ELSE GenerateLoop_prepend(Tail(keys), r.addrs, <<Head(keys).secret>> \o signers)

\* keys[i] is what create_key_addr wrote in iteration i
RECURSIVE GenerateLoop(_, _, _)
GenerateLoop(keys, authorities, signers) ==
    IF keys = << >>
    THEN [ok |-> TRUE, err |-> "", authorities |-> authorities, signers |-> signers]
    ELSE LET r == AuthorityList_add_after_check(authorities, Head(keys).address) IN
         IF ~r.ok
         THEN [ok |-> FALSE, err |-> r.err, authorities |-> authorities, signers |-> signers]
         ELSE GenerateLoop(Tail(keys), r.addrs, Append(signers, Head(keys).secret))

generate_authorities(keys) == GenerateLoop(keys, << >>, << >>)

-----------------------------------------------------------------------------
(* The tree under output_root.                                             *)
(*   executor, jsonrpc, network : template/configs/*.toml                  *)
(*   nodes_list, authorities_list : template/nodes.list, authorities.list   *)
(*   dirs[k] : the directory output_root/k                                  *)
(* A file a directory does not hold yet is << >>, otherwise <<content>>.    *)

NoTree ==
    [exists |-> FALSE,
     executor |-> [grpc_port |-> 0],
     jsonrpc |-> [http_listen_port |-> << >>, ws_listen_port |-> << >>],
     network |-> [peers |-> << >>],
     nodes_list |-> << >>,
     authorities_list |-> << >>,
     dirs |-> << >>]

NodeIds(tree) == DOMAIN tree.dirs

Peer(node_id, node) == [id_card |-> node_id, ip |-> node.host, port |-> node.port]

\* os.path.exists / open() on template/nodes.list: the file lives under output_root
nodes_list_exists(tree) == tree.exists

\* (variant for C6: no test of output_root, the template is written again)
template_create_unguarded(tree, args) ==
    [ok |-> TRUE, err |-> "",
     fs |-> [exists |-> TRUE,
             executor |-> [grpc_port |-> args.grpc_port],
             jsonrpc |-> [http_listen_port |-> IntToStr(args.jsonrpc_port),
                          ws_listen_port |-> IntToStr(args.ws_port)],
             network |-> [peers |-> << >>],
             nodes_list |-> << >>,
             authorities_list |-> args.authorities,
             dirs |-> tree.dirs]]

template_create_from_arguments(tree, args) ==
    IF tree.exists
    THEN [ok |-> FALSE, err |-> "exit1", fs |-> tree]
    ELSE [ok |-> TRUE, err |-> "",
          fs |-> [exists |-> TRUE,
                  executor |-> [grpc_port |-> args.grpc_port],
                  jsonrpc |-> [http_listen_port |-> IntToStr(args.jsonrpc_port),
                               ws_listen_port |-> IntToStr(args.ws_port)],
                  network |-> [peers |-> << >>],
                  nodes_list |-> << >>,
                  authorities_list |-> args.authorities,
                  dirs |-> << >>]]

\* (variant for C7: a missing nodes.list is read as an empty one)
template_load_missing_as_empty(tree) ==
    IF ~nodes_list_exists(tree)
    THEN [ok |-> TRUE, err |-> "", addrs |-> << >>]
    ELSE from_str(Replace(tree.nodes_list, NL, COMMA), << >>, COMMA)

\* logging.critical does not leave the method: the open() that follows raises
template_load_from_existed(tree) ==
    IF ~nodes_list_exists(tree)
    THEN [ok |-> FALSE, err |-> "FileNotFoundError", addrs |-> << >>]
    ELSE from_str(Replace(tree.nodes_list, NL, COMMA), << >>, COMMA)

(* the steps of append_node, in the order of the code *)

\* shutil.copytree(self.configs_dir, node_dir): node_dir must not exist
copytree_configs(tree, node_id) ==
    [tree EXCEPT !.dirs = (node_id :> [executor |-> tree.executor,
                                        jsonrpc |-> tree.jsonrpc,
                                        network |-> [peers |-> tree.network.peers,
                                                     id_card |-> << >>,
                                                     port |-> << >>,
                                                     comment |-> << >>],
                                        env |-> << >>,
                                        privkey |-> << >>]) @@ tree.dirs]

patch_executor(tree, node_id) ==
    [tree EXCEPT !.dirs[node_id].executor.grpc_port = @ + node_id]

\* (variant for C3: the websocket port is left at the base value)
patch_jsonrpc_http_only(tree, node_id) ==
    [tree EXCEPT !.dirs[node_id].jsonrpc.http_listen_port =
        IntToStr(StrToInt(@) + node_id)]

patch_jsonrpc(tree, node_id) ==
    [tree EXCEPT !.dirs[node_id].jsonrpc =
        [http_listen_port |-> IntToStr(StrToInt(@.http_listen_port) + node_id),
         ws_listen_port |-> IntToStr(StrToInt(@.ws_listen_port) + node_id)]]

write_env(tree, node_id) ==
    [tree EXCEPT !.dirs[node_id].env = <<[amqp_vhost |-> <<node_prefix, node_id>>,
                                          data_path |-> "./data"]>>]

write_privkey(tree, node_id, node) ==
    [tree EXCEPT !.dirs[node_id].privkey = <<node.signer>>]

append_template_peer(tree, node_id, node) ==
    [tree EXCEPT !.network.peers = Append(@, Peer(node_id, node))]

\* (variant for C1: the loop over the old nodes is left out)
append_old_peers_skipped(tree, from, node_id, node) == [ok |-> TRUE, fs |-> tree]

\* one iteration of `for old_id in range(0, node_id)`
append_old_peer(tree, old_id, node_id, node) ==
    [tree EXCEPT !.dirs[old_id].network =
        [@ EXCEPT !.peers = Append(@, Peer(node_id, node)),
                  !.comment = <<node.host>>]]

\* the iterations old_id = from .. node_id - 1; stops at a directory that is
\* missing (open() raises there, what was written before stays)
RECURSIVE append_old_peers(_, _, _, _)
append_old_peers(tree, from, node_id, node) ==
    IF from >= node_id THEN [ok |-> TRUE, fs |-> tree]
    ELSE IF from \notin NodeIds(tree) THEN [ok |-> FALSE, fs |-> tree]
    ELSE append_old_peers(append_old_peer(tree, from, node_id, node), from + 1, node_id, node)

\* (variant for C10: the node's own config is written from the template's
\* peer list as updated by this append)
write_own_network_from_template(tree, node_id, node) ==
    [tree EXCEPT !.dirs[node_id].network =
        [@ EXCEPT !.peers = tree.network.peers,
                  !.id_card = <<node_id>>,
                  !.port = <<node.port>>,
                  !.comment = <<node.host>>]]

write_own_network(tree, node_id, node) ==
    [tree EXCEPT !.dirs[node_id].network =
        [@ EXCEPT !.id_card = <<node_id>>,
                  !.port = <<node.port>>,
                  !.comment = <<node.host>>]]

append_nodes_list(tree, node) ==
    [tree EXCEPT !.nodes_list = @ \o FormatAddress(node.host, node.port) \o <<NL>>]

\* (variant for C4: the duplicate check runs after the directory is copied)
append_node_check_late(tree, addrs, node) ==
    LET node_id == Len(addrs)
        chk == add_after_check(addrs, node.host, node.port)
    IN IF ~tree.exists \/ node_id \in NodeIds(tree)
       THEN [ok |-> FALSE, err |-> "OSError", fs |-> tree, nodes |-> addrs]
       ELSE IF ~chk.ok
            THEN [ok |-> FALSE, err |-> chk.err,
                  fs |-> copytree_configs(tree, node_id), nodes |-> addrs]
            ELSE [ok |-> TRUE, err |-> "",
                  fs |-> append_nodes_list(
                            write_own_network(
                                append_old_peers(
                                    append_template_peer(
                                        write_privkey(
                                            write_env(
                                                patch_jsonrpc(
                                                    patch_executor(
                                                        copytree_configs(tree, node_id),
                                                        node_id),
                                                    node_id),
                                                node_id),
                                            node_id, node),
                                        node_id, node),
                                    0, node_id, node).fs,
                                node_id, node),
                            node),
                  nodes |-> chk.addrs]

append_node(tree, addrs, node) ==
    LET node_id == Len(addrs)
        chk == add_after_check(addrs, node.host, node.port)
    IN IF ~chk.ok
       THEN [ok |-> FALSE, err |-> chk.err, fs |-> tree, nodes |-> addrs]
       ELSE IF ~tree.exists \/ node_id \in NodeIds(tree)
            THEN [ok |-> FALSE, err |-> "OSError", fs |-> tree, nodes |-> chk.addrs]
            ELSE LET t1 == copytree_configs(tree, node_id)
                     t2 == patch_executor(t1, node_id)
                     t3 == patch_jsonrpc(t2, node_id)
                     t4 == write_env(t3, node_id)
                     t5 == write_privkey(t4, node_id, node)
                     t6 == append_template_peer(t5, node_id, node)
                     old == append_old_peers(t6, 0, node_id, node)
                 IN IF ~old.ok
                    THEN [ok |-> FALSE, err |-> "OSError", fs |-> old.fs, nodes |-> chk.addrs]
                    ELSE LET t8 == write_own_network(old.fs, node_id, node)
                             t9 == append_nodes_list(t8, node)
                         IN [ok |-> TRUE, err |-> "", fs |-> t9, nodes |-> chk.addrs]

-----------------------------------------------------------------------------
(* The two subcommands *)

RECURSIVE JoinAddresses(_)
JoinAddresses(es) ==
    IF es = << >> THEN << >>
    ELSE IF Len(es) = 1 THEN FormatAddress(es[1].host, es[1].port)
    ELSE FormatAddress(es[1].host, es[1].port) \o <<COMMA>> \o JoinAddresses(Tail(es))

\* `for node in args.nodes: info.append_node(node)`; an exception ends the loop
RECURSIVE AppendAll(_, _, _, _)
AppendAll(tree, addrs, pending, done) ==
    IF pending = << >>
    THEN [ok |-> TRUE, err |-> "", fs |-> tree, nodes |-> addrs, done |-> done, entered |-> Len(done)]
    ELSE LET r == append_node(tree, addrs, Head(pending)) IN
         IF ~r.ok
         THEN [ok |-> FALSE, err |-> r.err, fs |-> r.fs, nodes |-> r.nodes,
               done |-> done, entered |-> Len(done) + 1]
         ELSE AppendAll(r.fs, r.nodes, Tail(pending), Append(done, Head(pending)))

\* a process that ended before it built a ChainInfo, or before it changed anything
Ended(how, methods) ==
    /\ status' = how
    /\ called' = methods
    /\ nodes' = << >>
    /\ UNCHANGED <<fs, appended, requested, created>>

\* parse_arguments for `create`: the nodes with their signers and the authorities
create_arguments(es, authorities, ports, keys) ==
    LET parsed == from_str(JoinAddresses(es), << >>, COMMA) IN
    IF ~parsed.ok THEN [ok |-> FALSE, err |-> parsed.err]
    ELSE IF authorities = << >>
         THEN IF parsed.addrs = << >> THEN [ok |-> FALSE, err |-> "exit1"]
              ELSE LET gen == generate_authorities(keys) IN
                   IF ~gen.ok THEN [ok |-> FALSE, err |-> gen.err]
                   ELSE [ok |-> TRUE, err |-> "",
                         nodes |-> add_signers(parsed.addrs, gen.signers).addrs,
                         authorities |-> gen.authorities,
                         grpc_port |-> ports.grpc_port,
                         jsonrpc_port |-> ports.jsonrpc_port,
                         ws_port |-> ports.ws_port]
         ELSE [ok |-> TRUE, err |-> "",
               nodes |-> parsed.addrs,
               authorities |-> authorities,
               grpc_port |-> ports.grpc_port,
               jsonrpc_port |-> ports.jsonrpc_port,
               ws_port |-> ports.ws_port]

\* the tree and ChainInfo.nodes that run_subcmd_create leaves from `tree`
create_chain(tree, args) ==
    LET t == template_create_from_arguments(tree, args) IN
    IF ~t.ok
    THEN [ok |-> FALSE, err |-> t.err, fs |-> tree, nodes |-> << >>, done |-> << >>, entered |-> 0]
    ELSE AppendAll(t.fs, << >>, args.nodes, << >>)

run_subcmd_create(es, authorities, ports, keys) ==
    LET args == create_arguments(es, authorities, ports, keys) IN
    IF ~args.ok THEN Ended(args.err, << >>)
    ELSE LET r == create_chain(fs, args) IN
         IF fs.exists
         THEN Ended(r.err, <<"template_create_from_arguments">>)
         ELSE /\ fs' = r.fs
              /\ nodes' = r.nodes
              /\ status' = (IF r.ok THEN "ok" ELSE r.err)
              /\ called' = <<"template_create_from_arguments">>
                              \o [i \in 1..r.entered |-> "append_node"]
              /\ appended' = appended \o r.done
              /\ requested' = requested \o args.nodes
              /\ created' = <<args>>

\* parse_arguments for `append`: --node with --signer or a generated key
append_arguments(e, signer_arg, key) ==
    LET parsed == from_str_get_one(FormatAddress(e.host, e.port), COMMA) IN
    IF ~parsed.ok THEN [ok |-> FALSE, err |-> parsed.err]
    ELSE LET signers == IF signer_arg # "" THEN <<signer_arg>>
                        ELSE generate_authorities(<<key>>).signers
             signed == add_signers(parsed.addrs, signers)
         IN IF ~signed.ok THEN [ok |-> FALSE, err |-> signed.err]
            ELSE [ok |-> TRUE, err |-> "", node |-> signed.addrs]

\* the tree and ChainInfo.nodes that run_subcmd_append leaves from `tree`
append_to_chain(tree, args) ==
    LET loaded == template_load_from_existed(tree) IN
    IF ~loaded.ok
    THEN [ok |-> FALSE, err |-> loaded.err, fs |-> tree, nodes |-> << >>,
          methods |-> <<"template_load_from_existed">>]
    ELSE LET r == append_node(tree, loaded.addrs, args.node[1]) IN
         [ok |-> r.ok, err |-> r.err, fs |-> r.fs, nodes |-> r.nodes,
          methods |-> <<"template_load_from_existed", "append_node">>]

run_subcmd_append(e, signer_arg, key) ==
    LET args == append_arguments(e, signer_arg, key) IN
    /\ Len(requested) < MaxNodes
    /\ IF ~args.ok THEN Ended(args.err, << >>)
       ELSE LET r == append_to_chain(fs, args) IN
            /\ fs' = r.fs
            /\ nodes' = r.nodes
            /\ status' = (IF r.ok THEN "ok" ELSE r.err)
            /\ called' = r.methods
            /\ appended' = (IF r.ok THEN Append(appended, args.node[1]) ELSE appended)
            /\ requested' = (IF fs.exists THEN Append(requested, args.node[1]) ELSE requested)
            /\ UNCHANGED created

-----------------------------------------------------------------------------

\* no chain yet, no process has run
NoChain ==
    /\ fs = NoTree
    /\ nodes = << >>
    /\ status = "none"
    /\ called = << >>
    /\ appended = << >>
    /\ requested = << >>
    /\ created = << >>

\* no AddressList call has been made
NoCall == [op |-> "none"]

NoAddressList ==
    /\ alist = << >>
    /\ ret = NoCall

\* resource_dir does not exist, generate_prevhash has not been called
NoResourceDir == [exists |-> FALSE, files |-> << >>]

NoHash == [fresh |-> FALSE, made |-> FALSE, same |-> FALSE, hash |-> << >>]

NoResource ==
    /\ rdir = NoResourceDir
    /\ hret = NoHash

Procs == {1, 2}

\* the local variables of a process that is not in append_node
NoLocal == [node |-> << >>, nodes |-> << >>, node_id |-> 0, old_id |-> 0,
            network_data |-> << >>, raised |-> << >>]

\* no append process is running, every network.toml is whole
NoProcess ==
    /\ pc = [p \in Procs |-> "idle"]
    /\ loc = [p \in Procs |-> NoLocal]
    /\ emptied = {}
    /\ listed = << >>

Init ==
    /\ NoChain
    /\ NoAddressList
    /\ NoResource
    /\ NoProcess

\* Once output_root exists a create run ends the same way whatever nodes and
\* ports it is given, so one endpoint and one port triple stand for all.
CreateNodeArgs ==
    IF fs.exists THEN SeqsUpTo({ CHOOSE e \in Endpoints : TRUE }, 2)
    ELSE SeqsUpTo(Endpoints, MaxNodes)

CreatePortArgs == IF fs.exists THEN { CHOOSE p \in PortArgs : TRUE } ELSE PortArgs

Create ==
    /\ UNCHANGED addr_vars
    /\ UNCHANGED hash_vars
    /\ UNCHANGED step_vars
    /\ \E es \in CreateNodeArgs, authorities \in AuthorityArgs, ports \in CreatePortArgs :
          \E keys \in (IF authorities = << >> THEN SeqsOfLen(KeyPairs, Len(es)) ELSE { << >> }) :
              run_subcmd_create(es, authorities, ports, keys)

\* what create_key_addr writes for the one key of an append run
AppendKeyPairs == { [address |-> "0xA3", secret |-> "K3"] }

AppendRun ==
    /\ UNCHANGED addr_vars
    /\ UNCHANGED hash_vars
    /\ UNCHANGED step_vars
    /\ \E e \in Endpoints, signer_arg \in SignerArgs, key \in AppendKeyPairs :
          run_subcmd_append(e, signer_arg, key)

Next == Create \/ AppendRun

Spec == Init /\ [][Next]_vars

-----------------------------------------------------------------------------
(* AddressList on its own: the calls a program can make on the class, with  *)
(* texts made of a few segments joined by the delimiter.                    *)

MaxSegs == 2
MaxAddrs == 2

IP == <<"1", ".", "2", ".", "3", ".", "4">>

\* segments between delimiters: well formed, port written with a leading
\* zero, no port, port out of range, empty
Segments ==
    { IP \o <<COLON, "8", "0">>,
      <<"b", COLON, "8", "0">>,
      IP \o <<COLON, "0", "8", "0">>,
      IP,
      IP \o <<COLON, "7", "0", "0", "0", "0">>,
      << >> }

RECURSIVE Join(_, _)
Join(segs, d) ==
    IF segs = << >> THEN << >>
    ELSE IF Len(segs) = 1 THEN segs[1]
    ELSE segs[1] \o <<d>> \o Join(Tail(segs), d)

Texts == { Join(segs, COMMA) : segs \in SeqsUpTo(Segments, MaxSegs) }

\* size_check arguments: None, 0, 1, 2
SizeChecks == { << >>, <<0>>, <<1>>, <<2>> }

AddHosts == { IP, <<"b">> }
AddPorts == { 80, 9 }
\* signer lists of every length up to one more than the longest address list
SignerPool == <<"S1", "S2", "S3", "S4", "S5">>
SignerLists == { SubSeq(SignerPool, 1, n) : n \in 0..(MaxAddrs + 1) }

\* alist = AddressList.from_str(text, size_check): an exception leaves no object
call_from_str(text, size_check) ==
    LET r == from_str(text, size_check, COMMA) IN
    /\ alist' = (IF r.ok THEN r.addrs ELSE << >>)
    /\ ret' = [op |-> "from_str", text |-> text, size_check |-> size_check,
               ok |-> r.ok, err |-> r.err]

call_from_str_get_one(text) ==
    LET r == from_str_get_one(text, COMMA) IN
    /\ alist' = (IF r.ok THEN r.addrs ELSE << >>)
    /\ ret' = [op |-> "from_str_get_one", text |-> text, ok |-> r.ok, err |-> r.err]

\* alist.add_after_check(host, port)
call_add_after_check(host, port) ==
    LET r == add_after_check(alist, host, port) IN
    /\ Len(alist) < MaxAddrs
    /\ alist' = r.addrs
    /\ ret' = [op |-> "add_after_check", host |-> host, port |-> port,
               ok |-> r.ok, err |-> r.err]

\* alist.add_signers(signers)
call_add_signers(signers) ==
    LET r == add_signers(alist, signers) IN
    /\ alist' = r.addrs
    /\ ret' = [op |-> "add_signers", signers |-> signers, ok |-> r.ok, err |-> r.err]

FromStr ==
    /\ UNCHANGED chain_vars
    /\ UNCHANGED hash_vars
    /\ UNCHANGED step_vars
    /\ \E text \in Texts, size_check \in SizeChecks : call_from_str(text, size_check)

FromStrGetOne ==
    /\ UNCHANGED chain_vars
    /\ UNCHANGED hash_vars
    /\ UNCHANGED step_vars
    /\ \E text \in Texts : call_from_str_get_one(text)

AddAfterCheck ==
    /\ UNCHANGED chain_vars
    /\ UNCHANGED hash_vars
    /\ UNCHANGED step_vars
    /\ \E host \in AddHosts, port \in AddPorts : call_add_after_check(host, port)

AddSigners ==
    /\ UNCHANGED chain_vars
    /\ UNCHANGED hash_vars
    /\ UNCHANGED step_vars
    /\ \E signers \in SignerLists : call_add_signers(signers)

NextAddr == FromStr \/ FromStrGetOne \/ AddAfterCheck \/ AddSigners

SpecAddr == Init /\ [][NextAddr]_vars

-----------------------------------------------------------------------------
(* generate_prevhash on a resource directory other programs write to.       *)
(* rdir.files maps the path of each file, relative to resource_dir, to its  *)
(* content.                                                                 *)

FILES_LIST == <<"f", "i", "l", "e", "s", ".", "l", "i", "s", "t">>
SEP == "/"

\* the characters of paths and contents, in code point order
Alphabet == <<"\n", ".", "/", "a", "b", "e", "f", "i", "l", "s", "t">>

Ord(c) == CHOOSE i \in 1..Len(Alphabet) : Alphabet[i] = c

\* files a resource directory may hold: two plain files, a manifest at the
\* top level and a file of the same name one level down
Paths == { <<"b">>, <<"a">>, FILES_LIST, <<"s", SEP>> \o FILES_LIST }

Contents == { <<"a">>, <<"b", "a">> }

\* str < str
RECURSIVE PathLess(_, _)
PathLess(p, q) ==
    IF q = << >> THEN FALSE
    ELSE IF p = << >> THEN TRUE
    ELSE IF Head(p) # Head(q) THEN Ord(Head(p)) < Ord(Head(q))
    ELSE PathLess(Tail(p), Tail(q))

RECURSIVE Insert(_, _)
Insert(sorted, p) ==
    IF sorted = << >> THEN <<p>>
    ELSE IF PathLess(p, Head(sorted)) THEN <<p>> \o sorted
    ELSE <<Head(sorted)>> \o Insert(Tail(sorted), p)

\* list.sort()
RECURSIVE SortPaths(_)
SortPaths(list) ==
    IF list = << >> THEN << >> ELSE Insert(SortPaths(Tail(list)), Head(list))

\* md5obj.update(stream.read()) for each file of the list, in its order
RECURSIVE ReadAll(_, _)
ReadAll(files, list) ==
    IF list = << >> THEN << >> ELSE files[Head(list)] \o ReadAll(files, Tail(list))

\* the digest of a byte string; 16 bits stand for the 128 of MD5
RECURSIVE md5(_)
md5(bytes) ==
    IF bytes = << >> THEN 54321
    ELSE (md5(SubSeq(bytes, 1, Len(bytes) - 1)) * 31 + Ord(bytes[Len(bytes)])) % 65536

HexDigits == <<"0", "1", "2", "3", "4", "5", "6", "7", "8", "9", "a", "b", "c", "d", "e", "f">>

\* '{:x}'.format(n)
RECURSIVE ToHex(_)
ToHex(n) ==
    IF n < 16 THEN <<HexDigits[n + 1]>>
    ELSE ToHex(n \div 16) \o <<HexDigits[(n % 16) + 1]>>

ZeroPad(s, width) == [i \in 1..(width - Len(s)) |-> "0"] \o s

\* md5obj.hexdigest(): 32 hexadecimal digits
hexdigest(n) == ZeroPad(ToHex(n), 32)

\* int(s, 16)
RECURSIVE HexToInt(_)
HexToInt(s) ==
    IF s = << >> THEN 0
    ELSE 16 * HexToInt(SubSeq(s, 1, Len(s) - 1))
         + (CHOOSE d \in 1..16 : HexDigits[d] = s[Len(s)]) - 1

\* '0x{:064x}'.format(n)
format_064x(n) == <<"0", "x">> \o ZeroPad(ToHex(n), 64)

\* (variant for C16: the digest is taken in the order of the walk)
generate_prevhash_unsorted(dir, walk) ==
    IF ~dir.exists THEN [hash |-> << >>, dir |-> dir]
    ELSE LET file_list == SelectSeq(walk, LAMBDA q : q # FILES_LIST) IN
         IF file_list = << >> THEN [hash |-> << >>, dir |-> dir]
         ELSE LET res_hash == hexdigest(md5(ReadAll(dir.files, file_list)))
                  file_relpaths == SortPaths(file_list)
              IN [hash |-> <<format_064x(HexToInt(res_hash))>>,
                  dir |-> [dir EXCEPT !.files =
                              (FILES_LIST :> Join(file_relpaths, NL)) @@ @]]

\* walk: the files of the directory in the order os.walk gives them.
\* Returns the hash (<< >> for None) and the directory as the call leaves it.
generate_prevhash(dir, walk) ==
    IF ~dir.exists THEN [hash |-> << >>, dir |-> dir]
    ELSE LET file_list == SelectSeq(walk, LAMBDA q : q # FILES_LIST) IN
         IF file_list = << >> THEN [hash |-> << >>, dir |-> dir]
         ELSE LET sorted == SortPaths(file_list)
                  res_hash == hexdigest(md5(ReadAll(dir.files, sorted)))
              IN [hash |-> <<format_064x(HexToInt(res_hash))>>,
                  dir |-> [dir EXCEPT !.files =
                              (FILES_LIST :> Join(sorted, NL)) @@ @]]

\* the orders in which os.walk can give the files of a directory
RECURSIVE Orders(_)
Orders(S) ==
    IF S = {} THEN { << >> }
    ELSE UNION { { <<q>> \o w : w \in Orders(S \ {q}) } : q \in S }

Walks(dir) == Orders(DOMAIN dir.files)

\* what generate_prevhash reads: every file but the top-level files.list
Hashed(dir) ==
    LET kept == DOMAIN dir.files \ {FILES_LIST} IN
    [exists |-> dir.exists,
     files |-> IF kept = {} THEN << >> ELSE [q \in kept |-> dir.files[q]]]

\* a step of another program on the directory; hret.made says whether the
\* last call's result is for the content as it is now
Touch(dir) ==
    /\ rdir' = dir
    /\ hret' = [hret EXCEPT !.fresh = FALSE,
                            !.made = @ /\ Hashed(dir) = Hashed(rdir)]

Mkdir ==
    /\ UNCHANGED chain_vars
    /\ UNCHANGED addr_vars
    /\ UNCHANGED step_vars
    /\ ~rdir.exists
    /\ Touch([exists |-> TRUE, files |-> << >>])

WriteFile ==
    /\ UNCHANGED chain_vars
    /\ UNCHANGED addr_vars
    /\ UNCHANGED step_vars
    /\ rdir.exists
    /\ \E q \in Paths, c \in Contents :
          Touch([rdir EXCEPT !.files = (q :> c) @@ @])

RemoveFile ==
    /\ UNCHANGED chain_vars
    /\ UNCHANGED addr_vars
    /\ UNCHANGED step_vars
    /\ \E q \in DOMAIN rdir.files :
          LET kept == DOMAIN rdir.files \ {q} IN
          Touch([rdir EXCEPT !.files =
                    IF kept = {} THEN << >> ELSE [x \in kept |-> rdir.files[x]]])

GeneratePrevhash ==
    /\ UNCHANGED chain_vars
    /\ UNCHANGED addr_vars
    /\ UNCHANGED step_vars
    /\ \E walk \in Walks(rdir) :
          LET r == generate_prevhash(rdir, walk) IN
          /\ rdir' = r.dir
          /\ hret' = [fresh |-> TRUE, made |-> TRUE, same |-> hret.made, hash |-> r.hash]

NextHash == Mkdir \/ WriteFile \/ RemoveFile \/ GeneratePrevhash

SpecHash == Init /\ [][NextHash]_vars

-----------------------------------------------------------------------------
(* Append processes on one output_root, statement by statement.  Each process *)
(* is one run of `append --node HOST:PORT --signer S1`.  A read-modify-write  *)
(* of a network.toml that other nodes' appends also write is three steps:     *)
(* the read, the open(.., 'wt') that empties the file, and the dump.  The     *)
(* files of the node's own directory are written in one step each.            *)

MaxDirs == 3

StepEndpoints ==
    { [host |-> <<"a">>, port |-> 80],
      [host |-> <<"b">>, port |-> 80],
      [host |-> <<NL, "b">>, port |-> 80] }

StepSigner == "S1"

\* the chain `create --authorities 0xA9` leaves when it is given no node
CreatedArgs ==
    create_arguments(<< >>, <<"0xA9">>,
                     [grpc_port |-> 5000, jsonrpc_port |-> 1337, ws_port |-> 4337], << >>)

CreatedChain ==
    /\ fs = create_chain(NoTree, CreatedArgs).fs
    /\ nodes = << >>
    /\ status = "ok"
    /\ called = <<"template_create_from_arguments">>
    /\ appended = << >>
    /\ requested = << >>
    /\ created = <<CreatedArgs>>

InitSteps ==
    /\ CreatedChain
    /\ NoAddressList
    /\ NoResource
    /\ NoProcess

\* the names of the directories under output_root
TemplateDir == <<"t", "e", "m", "p", "l", "a", "t", "e">>

NodeDir(node_id) == IntToStr(node_id)

\* a network.toml as open(.., 'wt') leaves it
EmptyNetwork == [peers |-> << >>, id_card |-> << >>, port |-> << >>, comment |-> << >>]

\* the process leaves append_node by an exception, or returns from it
Leave(p, exception) ==
    /\ pc' = [pc EXCEPT ![p] = "idle"]
    /\ loc' = [loc EXCEPT ![p] = [NoLocal EXCEPT !.raised = exception]]

Goto(p, label) == pc' = [pc EXCEPT ![p] = label]

\* (variant for C19: an existing node directory is copied over)
copytree_exist_ok(tree, emp, node_id) ==
    [ok |-> TRUE,
     fs |-> copytree_configs(tree, node_id),
     emptied |-> IF TemplateDir \in emp THEN emp \cup {NodeDir(node_id)}
                 ELSE emp \ {NodeDir(node_id)}]

\* shutil.copytree(self.configs_dir, node_dir, False): os.makedirs(node_dir)
\* raises when node_dir exists; the copy of an emptied file is empty
copytree(tree, emp, node_id) ==
    IF node_id \in NodeIds(tree)
    THEN [ok |-> FALSE, fs |-> tree, emptied |-> emp]
    ELSE [ok |-> TRUE,
          fs |-> copytree_configs(tree, node_id),
          emptied |-> IF TemplateDir \in emp THEN emp \cup {NodeDir(node_id)} ELSE emp]

StepFrame == UNCHANGED <<run_vars, addr_vars, hash_vars>>

\* main: parse_arguments, ChainInfo(...)
Start ==
    /\ StepFrame
    /\ Cardinality(NodeIds(fs)) < MaxDirs
    /\ \E p \in Procs, e \in StepEndpoints :
          LET args == append_arguments(e, StepSigner, CHOOSE k \in AppendKeyPairs : TRUE) IN
          /\ pc[p] = "idle"
          /\ args.ok
          /\ Goto(p, "load")
          /\ loc' = [loc EXCEPT ![p] = [NoLocal EXCEPT !.node = args.node]]
          /\ UNCHANGED <<fs, emptied, listed>>

\* lines 315-316 and 236-237: template_load_from_existed, then node_id and
\* self.nodes.add_after_check, which touch no file
Load ==
    /\ StepFrame
    /\ \E p \in Procs :
          LET loaded == template_load_from_existed(fs)
              node == loc[p].node[1]
              chk == add_after_check(loaded.addrs, node.host, node.port)
          IN /\ pc[p] = "load"
             /\ IF ~loaded.ok THEN Leave(p, <<loaded.err>>)
                ELSE IF ~chk.ok THEN Leave(p, <<chk.err>>)
                ELSE /\ Goto(p, "copytree")
                     /\ loc' = [loc EXCEPT ![p].nodes = chk.addrs,
                                           ![p].node_id = Len(loaded.addrs)]
             /\ UNCHANGED <<fs, emptied, listed>>

\* line 240
Copytree ==
    /\ StepFrame
    /\ \E p \in Procs :
          LET r == copytree(fs, emptied, loc[p].node_id) IN
          /\ pc[p] = "copytree"
          /\ fs' = r.fs
          /\ emptied' = r.emptied
          /\ IF r.ok THEN Goto(p, "executor") /\ UNCHANGED loc
             ELSE Leave(p, <<"FileExistsError", loc[p].node_id>>)
          /\ UNCHANGED listed

\* lines 242-247
Executor ==
    /\ StepFrame
    /\ \E p \in Procs :
          /\ pc[p] = "executor"
          /\ fs' = patch_executor(fs, loc[p].node_id)
          /\ Goto(p, "jsonrpc")
          /\ UNCHANGED <<loc, emptied, listed>>

\* lines 249-259
Jsonrpc ==
    /\ StepFrame
    /\ \E p \in Procs :
          /\ pc[p] = "jsonrpc"
          /\ fs' = patch_jsonrpc(fs, loc[p].node_id)
          /\ Goto(p, "env")
          /\ UNCHANGED <<loc, emptied, listed>>

\* lines 261-265
Env ==
    /\ StepFrame
    /\ \E p \in Procs :
          /\ pc[p] = "env"
          /\ fs' = write_env(fs, loc[p].node_id)
          /\ Goto(p, "privkey")
          /\ UNCHANGED <<loc, emptied, listed>>

\* lines 267-269
Privkey ==
    /\ StepFrame
    /\ \E p \in Procs :
          /\ pc[p] = "privkey"
          /\ fs' = write_privkey(fs, loc[p].node_id, loc[p].node[1])
          /\ Goto(p, "template_read")
          /\ UNCHANGED <<loc, emptied, listed>>

\* lines 272-275: network_data['peers'] raises KeyError on an emptied file
TemplateRead ==
    /\ StepFrame
    /\ \E p \in Procs :
          /\ pc[p] = "template_read"
          /\ IF TemplateDir \in emptied THEN Leave(p, <<"KeyError">>)
             ELSE /\ Goto(p, "template_open")
                  /\ loc' = [loc EXCEPT ![p].network_data =
                        <<append_template_peer(fs, loc[p].node_id, loc[p].node[1]).network>>]
          /\ UNCHANGED <<fs, emptied, listed>>

\* line 276
TemplateOpen ==
    /\ StepFrame
    /\ \E p \in Procs :
          /\ pc[p] = "template_open"
          /\ fs' = [fs EXCEPT !.network = [peers |-> << >>]]
          /\ emptied' = emptied \cup {TemplateDir}
          /\ Goto(p, "template_dump")
          /\ UNCHANGED <<loc, listed>>

\* line 277, then the test of the for loop of line 279
TemplateDump ==
    /\ StepFrame
    /\ \E p \in Procs :
          /\ pc[p] = "template_dump"
          /\ fs' = [fs EXCEPT !.network = loc[p].network_data[1]]
          /\ emptied' = emptied \ {TemplateDir}
          /\ Goto(p, IF loc[p].node_id > 0 THEN "old_read" ELSE "own_network")
          /\ loc' = [loc EXCEPT ![p].old_id = 0, ![p].network_data = << >>]
          /\ UNCHANGED listed

\* lines 280-285: open raises when the old directory is missing
OldRead ==
    /\ StepFrame
    /\ \E p \in Procs :
          /\ pc[p] = "old_read"
          /\ IF loc[p].old_id \notin NodeIds(fs) THEN Leave(p, <<"FileNotFoundError">>)
             ELSE IF NodeDir(loc[p].old_id) \in emptied THEN Leave(p, <<"KeyError">>)
             ELSE /\ Goto(p, "old_open")
                  /\ loc' = [loc EXCEPT ![p].network_data =
                        <<append_old_peer(fs, loc[p].old_id, loc[p].node_id,
                                          loc[p].node[1]).dirs[loc[p].old_id].network>>]
          /\ UNCHANGED <<fs, emptied, listed>>

\* line 286
OldOpen ==
    /\ StepFrame
    /\ \E p \in Procs :
          /\ pc[p] = "old_open"
          /\ fs' = [fs EXCEPT !.dirs[loc[p].old_id].network = EmptyNetwork]
          /\ emptied' = emptied \cup {NodeDir(loc[p].old_id)}
          /\ Goto(p, "old_dump")
          /\ UNCHANGED <<loc, listed>>

\* lines 287-288, then the test of the for loop
OldDump ==
    /\ StepFrame
    /\ \E p \in Procs :
          /\ pc[p] = "old_dump"
          /\ fs' = [fs EXCEPT !.dirs[loc[p].old_id].network = loc[p].network_data[1]]
          /\ emptied' = emptied \ {NodeDir(loc[p].old_id)}
          /\ Goto(p, IF loc[p].old_id + 1 < loc[p].node_id THEN "old_read" ELSE "own_network")
          /\ loc' = [loc EXCEPT ![p].old_id = @ + 1, ![p].network_data = << >>]
          /\ UNCHANGED listed

\* lines 290-297: a copy without a peers table stays without one
OwnNetwork ==
    /\ StepFrame
    /\ \E p \in Procs :
          /\ pc[p] = "own_network"
          /\ fs' = write_own_network(fs, loc[p].node_id, loc[p].node[1])
          /\ Goto(p, "nodes_list")
          /\ UNCHANGED <<loc, emptied, listed>>

\* lines 299-300, and the return
NodesList ==
    /\ StepFrame
    /\ \E p \in Procs :
          /\ pc[p] = "nodes_list"
          /\ fs' = append_nodes_list(fs, loc[p].node[1])
          /\ listed' = Append(listed, loc[p].node_id)
          /\ Leave(p, << >>)
          /\ UNCHANGED emptied

\* the statement the process is at raises OSError: the disk is full, a file
\* cannot be opened
Fail ==
    /\ StepFrame
    /\ \E p \in Procs :
          /\ pc[p] \notin {"idle", "load"}
          /\ Leave(p, <<"OSError">>)
          /\ UNCHANGED <<fs, emptied, listed>>

NextSteps ==
    \/ Start
    \/ Load
    \/ Copytree
    \/ Executor
    \/ Jsonrpc
    \/ Env
    \/ Privkey
    \/ TemplateRead
    \/ TemplateOpen
    \/ TemplateDump
    \/ OldRead
    \/ OldOpen
    \/ OldDump
    \/ OwnNetwork
    \/ NodesList

SpecSteps == InitSteps /\ [][NextSteps]_vars

NextCrash == NextSteps \/ Fail

SpecCrash == InitSteps /\ [][NextCrash]_vars

-----------------------------------------------------------------------------
(* Vocabulary of the properties *)

LOAD == "template_load_from_existed"
CREATE == "template_create_from_arguments"
APPEND == "append_node"

\* the last process completed an append_node call
AppendCompleted == status = "ok" /\ called # << >> /\ called[Len(called)] = APPEND

\* the number of append_node calls that completed on this chain
Count == Len(appended)

HostPorts(addrs) == [i \in 1..Len(addrs) |-> [host |-> addrs[i].host, port |-> addrs[i].port]]

Distinct(addrs) ==
    \A i, j \in 1..Len(addrs) :
        (addrs[i].host = addrs[j].host /\ addrs[i].port = addrs[j].port) => i = j

\* the lines of a text file (a final newline ends the last line)
Lines(text) ==
    IF text = << >> THEN << >>
    ELSE LET parts == Split(text, NL) IN
         IF parts[Len(parts)] = << >> THEN SubSeq(parts, 1, Len(parts) - 1) ELSE parts

-----------------------------------------------------------------------------
\* C1: full mesh. After n completed append_node calls, every node i < n has a
\* directory whose network config lists, for each j < n with j # i, exactly
\* one peer record, carrying j's id, host and port, and lists nothing else:
\* n - 1 records and none for i itself.
FullMesh ==
    \A i \in 0..(Count - 1) :
        /\ i \in NodeIds(fs)
        /\ LET peers == fs.dirs[i].network.peers IN
           /\ Len(peers) = Count - 1
           /\ \A j \in 0..(Count - 1) :
                 Cardinality({ p \in 1..Len(peers) : peers[p] = Peer(j, appended[j + 1]) })
                    = (IF j = i THEN 0 ELSE 1)
           /\ \A p \in 1..Len(peers) : peers[p].id_card # i

\* a third node appended by an append run to a chain of two
FullMeshWitness ==
    /\ Count = 3
    /\ AppendCompleted
    /\ called = <<LOAD, APPEND>>
    /\ Len(fs.dirs[0].network.peers) = 2

\* C3: port allocation. Node k's executor config has grpc_port = P + k and its
\* RPC config has the HTTP listen port H + k and the websocket listen port
\* W + k (as decimal text), P, H, W being the base ports given to create.
PortAllocation ==
    created # << >> =>
        \A k \in NodeIds(fs) :
            /\ fs.dirs[k].executor.grpc_port = created[1].grpc_port + k
            /\ fs.dirs[k].jsonrpc.http_listen_port = IntToStr(created[1].jsonrpc_port + k)
            /\ fs.dirs[k].jsonrpc.ws_listen_port = IntToStr(created[1].ws_port + k)

\* a chain whose first node was added by create and whose last by an append run
PortAllocationWitness ==
    /\ created # << >>
    /\ Len(created[1].nodes) = 1
    /\ Count = 3
    /\ called = <<LOAD, APPEND>>
    /\ fs.dirs[2].executor.grpc_port = created[1].grpc_port + 2

NoEmptyPrivkey ==
    \A k \in NodeIds(fs) : fs.dirs[k].privkey # <<"">>

\* C6: the create guard. A create run started while output_root exists leaves
\* the whole tree unchanged; when it reaches template_create_from_arguments
\* that method is the last one entered and the process ends with exit code 1.
\* In every state where output_root exists the method answers so for any
\* arguments.
CreateGuard ==
    [][ /\ (fs.exists /\ Create)
           => ( /\ fs' = fs
                /\ (called' # << >> => called' = <<CREATE>> /\ status' = "exit1") )
        /\ fs'.exists
           => \A ports \in PortArgs, authorities \in AuthorityArgs :
                 LET r == template_create_from_arguments(
                              fs', [nodes |-> << >>, authorities |-> authorities,
                                    grpc_port |-> ports.grpc_port,
                                    jsonrpc_port |-> ports.jsonrpc_port,
                                    ws_port |-> ports.ws_port])
                 IN ~r.ok /\ r.err = "exit1" /\ r.fs = fs'
      ]_vars

\* a second create ended with exit code 1 on a chain that has nodes from a
\* create run and from an append run
CreateGuardWitness ==
    /\ status = "exit1"
    /\ called = <<CREATE>>
    /\ fs.exists
    /\ Count = 2
    /\ Len(created[1].nodes) = 1

\* C7: the load guard. An append run started while output_root does not exist
\* fails: it ends with an error, append_node is not entered, and nothing is
\* created under output_root.
LoadGuard ==
    [][ (~fs.exists /\ AppendRun)
        => ( /\ status' \notin {"ok", "none"}
             /\ \A i \in 1..Len(called') : called'[i] # APPEND
             /\ called' = <<LOAD>>
             /\ fs' = fs
             /\ ~fs'.exists
             /\ NodeIds(fs') = {} )
      ]_vars

\* an append run failed on a chain that was never created
LoadGuardWitness ==
    /\ ~fs.exists
    /\ called = <<LOAD>>
    /\ status = "FileNotFoundError"

\* C2: create/append equivalence. When the chain was created with nodes=[]
\* and the append runs that followed were given distinct endpoints e1..en,
\* the tree is the one that create with nodes=[e1..en] (same signers, same
\* other arguments) leaves.
CreateAppendEquivalence ==
    (created # << >> /\ created[1].nodes = << >> /\ Distinct(requested))
    => fs = create_chain(NoTree, [created[1] EXCEPT !.nodes = requested]).fs

\* C8: nodes.list round trip. After n completed appends nodes.list holds
\* exactly n lines, line k being 'host:port' of the k-th appended endpoint;
\* template_load_from_existed succeeds on it and reconstructs the (host, port)
\* sequence of the appended endpoints, which is also that of the nodes
\* collection of the process that made the appends.
NodesListRoundTrip ==
    fs.exists =>
        /\ Len(Lines(fs.nodes_list)) = Count
        /\ \A k \in 1..Count :
              /\ k <= Len(Lines(fs.nodes_list))
              /\ Lines(fs.nodes_list)[k] = FormatAddress(appended[k].host, appended[k].port)
        /\ template_load_from_existed(fs).ok
        /\ HostPorts(template_load_from_existed(fs).addrs) = HostPorts(appended)
        /\ AppendCompleted => HostPorts(template_load_from_existed(fs).addrs) = HostPorts(nodes)

\* the host and the port a line of nodes.list gives (<< >> when it gives none)
LineHost(line) ==
    LET parts == Split(line, COLON) IN IF Len(parts) = 2 THEN <<parts[1]>> ELSE << >>

LinePort(line) ==
    LET parts == Split(line, COLON) IN
    IF Len(parts) = 2 /\ IsNumeral(parts[2]) THEN <<StrToInt(parts[2])>> ELSE << >>

\* C9: node ids are sequential, zero-based and never reused. The k-th
\* completed append has node id k: after n of them the node directories are
\* exactly 0..n-1, one for each endpoint of the nodes collection; directory k
\* holds the k-th endpoint's secret, its network config has id k and the port
\* of line k of nodes.list; and every peer record with id j, in the template
\* or in a node's config, carries the host and port of line j of nodes.list.
NodeIdsSequential ==
    fs.exists =>
        LET lines == Lines(fs.nodes_list)
            PeerOfLine(p) ==
                /\ p.id_card \in 0..(Len(lines) - 1)
                /\ <<p.ip>> = LineHost(lines[p.id_card + 1])
                /\ <<p.port>> = LinePort(lines[p.id_card + 1])
        IN /\ NodeIds(fs) = 0..(Count - 1)
           /\ AppendCompleted => Len(nodes) = Count
           /\ \A k \in NodeIds(fs) :
                 /\ fs.dirs[k].network.id_card = <<k>>
                 /\ k + 1 <= Count => /\ fs.dirs[k].privkey = <<appended[k + 1].signer>>
                                      /\ fs.dirs[k].network.port = <<appended[k + 1].port>>
                 /\ k + 1 <= Len(lines)
                 /\ k + 1 <= Len(lines) => fs.dirs[k].network.port = LinePort(lines[k + 1])
                 /\ \A p \in 1..Len(fs.dirs[k].network.peers) :
                       PeerOfLine(fs.dirs[k].network.peers[p])
           /\ \A p \in 1..Len(fs.network.peers) : PeerOfLine(fs.network.peers[p])

\* C10 as stated: after append_node(k) completes, the peer list of node k's
\* own network config is the template network config's peer list.
OwnPeersMatchTemplate ==
    (AppendCompleted /\ (Count - 1) \in NodeIds(fs))
    => fs.dirs[Count - 1].network.peers = fs.network.peers

\* C10 as amended: after append_node(k) completes, the template network
\* config's peer list is the peer list of node k's own network config
\* followed by node k's peer record; node k's own list is the template list
\* as it was before this append and holds no record for k.
TemplatePeersExtendOwn ==
    (AppendCompleted /\ (Count - 1) \in NodeIds(fs))
    => /\ fs.network.peers
            = Append(fs.dirs[Count - 1].network.peers, Peer(Count - 1, appended[Count]))
       /\ \A p \in 1..Len(fs.dirs[Count - 1].network.peers) :
             fs.dirs[Count - 1].network.peers[p].id_card # Count - 1

\* node 2 was appended by an append run: its own list has two records, the
\* template's three
TemplatePeersExtendOwnWitness ==
    /\ AppendCompleted
    /\ called = <<LOAD, APPEND>>
    /\ Count = 3
    /\ Len(fs.dirs[2].network.peers) = 2
    /\ Len(fs.network.peers) = 3

-----------------------------------------------------------------------------
(* Vocabulary of the AddressList properties *)

\* the segments of a text that from_str does not skip
NonEmptySegments(text) == SelectSeq(Split(text, COMMA), LAMBDA seg : seg # << >>)

\* HOST:PORT with both parts non-empty and the port in [1, 65535]
WellFormed(seg) ==
    LET parts == Split(seg, COLON) IN
    /\ Len(parts) = 2
    /\ parts[1] # << >>
    /\ IsNumeral(parts[2])
    /\ StrToInt(parts[2]) \in 1..65535

SegmentEndpoint(seg) ==
    LET parts == Split(seg, COLON) IN [host |-> parts[1], port |-> StrToInt(parts[2])]

AllWellFormed(text) ==
    \A i \in 1..Len(NonEmptySegments(text)) : WellFormed(NonEmptySegments(text)[i])

\* the number of endpoints a text denotes, when every segment is well formed
\* and no endpoint is repeated
EndpointsOf(text) ==
    [i \in 1..Len(NonEmptySegments(text)) |-> SegmentEndpoint(NonEmptySegments(text)[i])]

RepeatsEndpoint(text) ==
    \E i, j \in 1..Len(NonEmptySegments(text)) :
        /\ i < j
        /\ WellFormed(NonEmptySegments(text)[i])
        /\ WellFormed(NonEmptySegments(text)[j])
        /\ SegmentEndpoint(NonEmptySegments(text)[i]) = SegmentEndpoint(NonEmptySegments(text)[j])

Parseable(text) == AllWellFormed(text) /\ ~RepeatsEndpoint(text)

-----------------------------------------------------------------------------
\* C11: from_str with an expected size fails with the size-mismatch error
\* whenever the text parses and the number of endpoints differs from the
\* expected size, for every expected size, 0 included; from_str_get_one
\* accepts exactly the texts that give one endpoint.
SizeCheckEnforced ==
    /\ (ret.op = "from_str" /\ ret.size_check # << >>)
       => ( (Parseable(ret.text) /\ Len(EndpointsOf(ret.text)) # ret.size_check[1])
            => (~ret.ok /\ ret.err = "SizeMismatchError") )
    /\ ret.op = "from_str_get_one"
       => (ret.ok <=> (Parseable(ret.text) /\ Len(EndpointsOf(ret.text)) = 1))

\* C12: no two endpoints of an AddressList share (host, port), whatever
\* from_str and add_after_check calls made it; an add_after_check that would
\* collide fails with the duplicate error and leaves the list as it was; and
\* from_str fails on a text that repeats an endpoint, with the duplicate error
\* for '1.2.3.4:80,1.2.3.4:80'.
AddressesUnique ==
    [][ /\ Distinct(alist')
        /\ (ret'.op = "add_after_check" /\ HasAddress(alist, ret'.host, ret'.port))
           => (~ret'.ok /\ ret'.err = "DuplicateError" /\ alist' = alist)
        /\ (ret'.op = "add_after_check" /\ ~HasAddress(alist, ret'.host, ret'.port))
           => (ret'.ok /\ HostPorts(alist')
                            = Append(HostPorts(alist), [host |-> ret'.host, port |-> ret'.port]))
        /\ (ret'.op \in {"from_str", "from_str_get_one"} /\ RepeatsEndpoint(ret'.text))
           => ~ret'.ok
        /\ (ret'.op = "from_str"
              /\ ret'.text = Join(<<IP \o <<COLON, "8", "0">>, IP \o <<COLON, "8", "0">> >>, COMMA))
           => ret'.err = "DuplicateError"
      ]_vars

\* an add_after_check collided with the endpoint a from_str had parsed
AddressesUniqueWitness ==
    /\ ret.op = "add_after_check"
    /\ ~ret.ok
    /\ Len(alist) = 1
    /\ HasAddress(alist, ret.host, ret.port)

\* C13 as stated: from_str (no expected size) accepts a text iff every
\* non-empty segment is HOST:PORT with both parts non-empty and the port in
\* [1, 65535]; it returns the endpoints in the order of the text, and parsing
\* their 'host:port' texts joined by the delimiter gives the same list.
AcceptsWellFormed ==
    (ret.op = "from_str" /\ ret.size_check = << >>)
    => /\ ret.ok <=> AllWellFormed(ret.text)
       /\ ret.text = IP => ~ret.ok
       /\ ret.text = IP \o <<COLON, "7", "0", "0", "0", "0">> => ~ret.ok
       /\ ret.ok => /\ HostPorts(alist) = EndpointsOf(ret.text)
                    /\ from_str(JoinAddresses(alist), << >>, COMMA).ok
                    /\ from_str(JoinAddresses(alist), << >>, COMMA).addrs = alist

\* C13 as amended: from_str accepts a text iff every non-empty segment is
\* HOST:PORT with both parts non-empty and the port in [1, 65535] and no two
\* segments give the same (host, port); the rest as stated.
AcceptsWellFormedDistinct ==
    (ret.op = "from_str" /\ ret.size_check = << >>)
    => /\ ret.ok <=> (AllWellFormed(ret.text) /\ ~RepeatsEndpoint(ret.text))
       /\ ret.text = IP => ~ret.ok
       /\ ret.text = IP \o <<COLON, "7", "0", "0", "0", "0">> => ~ret.ok
       /\ ret.ok => /\ HostPorts(alist) = EndpointsOf(ret.text)
                    /\ from_str(JoinAddresses(alist), << >>, COMMA).ok
                    /\ from_str(JoinAddresses(alist), << >>, COMMA).addrs = alist

\* two endpoints parsed from a text that is not the text they are written back as
AcceptsWellFormedDistinctWitness ==
    /\ ret.op = "from_str"
    /\ ret.size_check = << >>
    /\ ret.ok
    /\ Len(alist) = 2
    /\ ret.text # JoinAddresses(alist)

\* C14: add_signers with a number of signers different from the number of
\* endpoints fails with the size-mismatch error and leaves the list, signers
\* included, as it was; with equal numbers it sets endpoint i's signer to
\* signers[i] for every i and changes no host and no port.
SignersAligned ==
    [][ ret'.op = "add_signers"
        => IF Len(ret'.signers) # Len(alist)
           THEN ~ret'.ok /\ ret'.err = "SizeMismatchError" /\ alist' = alist
           ELSE /\ ret'.ok
                /\ Len(alist') = Len(alist)
                /\ HostPorts(alist') = HostPorts(alist)
                /\ \A i \in 1..Len(alist) : alist'[i].signer = ret'.signers[i]
      ]_vars

\* a list of two endpoints with signers kept them through a call with a
\* signer list of another length
SignersAlignedWitness ==
    /\ ret.op = "add_signers"
    /\ ~ret.ok
    /\ Len(alist) = 2
    /\ alist[1].signer = "S1"
    /\ alist[2].signer = "S2"

-----------------------------------------------------------------------------
\* the create run of this step was given no --authorities and made the tree
GeneratedCreate ==
    /\ ~fs.exists
    /\ fs'.exists
    /\ created'[1].authorities \notin AuthorityArgs

\* C15: a create run without --authorities generates one key pair per
\* requested node, so authorities.list has as many lines as nodes were
\* requested and as secrets were attached, and the privkey of every node i it
\* provisions is the secret generated with the authority on line i of
\* authorities.list.
SignerAuthorityAligned ==
    [][ GeneratedCreate
        => /\ Len(fs'.authorities_list) = Len(created'[1].nodes)
           /\ \A i \in 1..Len(created'[1].nodes) :
                 [address |-> fs'.authorities_list[i],
                  secret |-> created'[1].nodes[i].signer] \in KeyPairs
           /\ \A i \in NodeIds(fs') :
                 /\ fs'.dirs[i].privkey # << >>
                 /\ [address |-> fs'.authorities_list[i + 1],
                     secret |-> fs'.dirs[i].privkey[1]] \in KeyPairs
      ]_vars

\* two nodes provisioned with two generated key pairs
SignerAuthorityAlignedWitness ==
    /\ fs.exists
    /\ created # << >>
    /\ fs.authorities_list = <<"0xA2", "0xA1">>
    /\ NodeIds(fs) = {0, 1}
    /\ fs.dirs[0].privkey = <<"K2">>
    /\ fs.dirs[1].privkey = <<"K1">>

\* C18: a successful append_node(k) changes a node i < k provisioned before
\* only by one peer record, for k, appended at the end of node i's peer list:
\* every other part of node i's directory is as it was, and so are the
\* template's executor and jsonrpc configs.
AppendFrame ==
    [][ \A k \in 0..MaxNodes :
          (/\ status' = "ok"
           /\ called' = <<"template_load_from_existed", "append_node">>
           /\ k \notin NodeIds(fs)
           /\ k \in NodeIds(fs'))
          => /\ fs'.executor = fs.executor
             /\ fs'.jsonrpc = fs.jsonrpc
             /\ \A i \in NodeIds(fs) :
                   /\ i \in NodeIds(fs')
                   /\ Len(fs'.dirs[i].network.peers) = Len(fs.dirs[i].network.peers) + 1
                   /\ fs'.dirs[i].network.peers[Len(fs'.dirs[i].network.peers)].id_card = k
                   /\ fs'.dirs[i] =
                        [fs.dirs[i] EXCEPT !.network.peers =
                            Append(@, fs'.dirs[i].network.peers[Len(fs'.dirs[i].network.peers)])]
      ]_vars

-----------------------------------------------------------------------------
\* a 0x-prefixed text of 64 hexadecimal digits
IsPrevhash(text) ==
    /\ Len(text) = 66
    /\ text[1] = "0"
    /\ text[2] = "x"
    /\ \A i \in 3..66 : \E d \in 1..16 : HexDigits[d] = text[i]

\* C16: generate_prevhash is stable. A call on a directory whose content,
\* the top-level files.list aside, is what it was at the call before returns
\* what that call returned; the value is the same for every order in which
\* the files can be enumerated, and is 0x followed by 64 hexadecimal digits;
\* when the directory is absent or holds no file but the top-level files.list
\* the call returns none and writes nothing, and otherwise it changes nothing
\* but the top-level files.list.
PrevhashStable ==
    [][ hret'.fresh
        => /\ hret.made => hret'.hash = hret.hash
           /\ \A walk \in Walks(rdir) : generate_prevhash(rdir, walk).hash = hret'.hash
           /\ IF ~rdir.exists \/ DOMAIN rdir.files \subseteq {FILES_LIST}
              THEN hret'.hash = << >> /\ rdir' = rdir
              ELSE /\ hret'.hash # << >>
                   /\ IsPrevhash(hret'.hash[1])
                   /\ FILES_LIST \in DOMAIN rdir'.files
                   /\ Hashed(rdir') = Hashed(rdir)
      ]_vars

\* a second call on the same three files, the manifest of the first in place
PrevhashStableWitness ==
    /\ hret.fresh
    /\ hret.same
    /\ hret.hash # << >>
    /\ DOMAIN rdir.files = Paths
    /\ rdir.files[<<"a">>] # rdir.files[<<"b">>]

-----------------------------------------------------------------------------
(* Vocabulary of the properties of the append processes *)

\* the process has its node directory
Past(label) == label \notin {"idle", "load", "copytree"}

PeerIds(peers) == [i \in 1..Len(peers) |-> peers[i].id_card]

NoRepeat(seq) == \A i, j \in 1..Len(seq) : seq[i] = seq[j] => i = j

Range(seq) == { seq[i] : i \in 1..Len(seq) }

IsPrefix(s, t) == Len(s) <= Len(t) /\ SubSeq(t, 1, Len(s)) = s

\* every peer record of the tree
PeerRecords(tree) ==
    Range(tree.network.peers)
        \cup UNION { Range(tree.dirs[i].network.peers) : i \in NodeIds(tree) }

\* directory i holds every file append_node writes, each with its content
CompleteDir(tree, emp, i) ==
    /\ i \in NodeIds(tree)
    /\ NodeDir(i) \notin emp
    /\ tree.dirs[i].network.id_card = <<i>>
    /\ tree.dirs[i].network.port # << >>
    /\ tree.dirs[i].env # << >>
    /\ tree.dirs[i].privkey # << >>

\* C17, the states: nodes.list has at most as many lines as there are node
\* directories, and every node it lists has a complete directory whose peer
\* list has a record for every other listed node.
ListedNodesWhole ==
    LET n == Len(Lines(fs.nodes_list)) IN
    /\ n <= Cardinality(NodeIds(fs))
    /\ \A i \in 0..(n - 1) :
          /\ CompleteDir(fs, emptied, i)
          /\ \A j \in 0..(n - 1) :
                j # i => \E r \in Range(fs.dirs[i].network.peers) : r.id_card = j

\* C17: write ordering within one append. The line of node k is appended to
\* nodes.list only when node k's directory is fully written, the template
\* peer list has k's record and every node 0..k-1 has k's record; and in
\* every state, the one an I/O failure in the middle of an append leaves
\* included, nodes.list has at most as many lines as there are node
\* directories and every listed node has a complete directory and is in the
\* peer list of every other listed node.
WriteOrdering ==
    [][ /\ ListedNodesWhole'
        /\ \A p \in Procs :
              (pc[p] = "nodes_list" /\ fs'.nodes_list # fs.nodes_list)
              => LET k == loc[p].node_id IN
                 /\ CompleteDir(fs, emptied, k)
                 /\ TemplateDir \notin emptied
                 /\ \E r \in Range(fs.network.peers) : r.id_card = k
                 /\ \A i \in 0..(k - 1) :
                       /\ i \in NodeIds(fs)
                       /\ \E r \in Range(fs.dirs[i].network.peers) : r.id_card = k
      ]_vars

\* C19, the states: no peer list holds two records for one id or a record
\* for its own node, no id stands for two endpoints, no two lines of
\* nodes.list were written for one id, and once every process has ended each
\* node lists exactly the other nodes and the template lists them all.
MeshSound ==
    /\ NoRepeat(listed)
    /\ Len(listed) <= Cardinality(NodeIds(fs))
    /\ NoRepeat(PeerIds(fs.network.peers))
    /\ \A i \in NodeIds(fs) :
          /\ NoRepeat(PeerIds(fs.dirs[i].network.peers))
          /\ i \notin Range(PeerIds(fs.dirs[i].network.peers))
    /\ \A r1, r2 \in PeerRecords(fs) : r1.id_card = r2.id_card => r1 = r2
    /\ (\A p \in Procs : pc[p] = "idle")
       => /\ emptied = {}
          /\ Range(listed) = NodeIds(fs)
          /\ Range(PeerIds(fs.network.peers)) = NodeIds(fs)
          /\ \A i \in NodeIds(fs) :
                Range(PeerIds(fs.dirs[i].network.peers)) = NodeIds(fs) \ {i}

\* C19: two append processes on one output_root, their steps interleaved in
\* any way. A node directory is made by one process only: two processes that
\* computed the same node_id are never both past the copy of the directory,
\* and the one that finds the directory ends with an error and changes no
\* file. No file that keeps its peers table loses a record, and the states
\* are sound: no record twice, no id for two endpoints, no two lines of
\* nodes.list for one id.
ConcurrentAppends ==
    [][ /\ MeshSound'
        /\ \A p, q \in Procs :
              (p # q /\ Past(pc'[p]) /\ Past(pc'[q])) => loc'[p].node_id # loc'[q].node_id
        /\ \A p \in Procs :
              /\ (pc[p] = "copytree" /\ Past(pc'[p]))
                 => /\ loc[p].node_id \notin NodeIds(fs)
                    /\ NodeIds(fs') = NodeIds(fs) \cup {loc[p].node_id}
              /\ (pc[p] = "copytree" /\ pc'[p] = "idle")
                 => /\ loc[p].node_id \in NodeIds(fs)
                    /\ fs' = fs
                    /\ emptied' = emptied
        /\ (TemplateDir \notin emptied /\ TemplateDir \notin emptied')
           => IsPrefix(fs.network.peers, fs'.network.peers)
        /\ \A i \in NodeIds(fs) :
              /\ i \in NodeIds(fs')
              /\ (NodeDir(i) \notin emptied /\ NodeDir(i) \notin emptied')
                 => IsPrefix(fs.dirs[i].network.peers, fs'.dirs[i].network.peers)
      ]_vars

\* a process found the directory of node 1 made by the other one, which is
\* still writing it
ConcurrentAppendsWitness ==
    \E p, q \in Procs :
        /\ p # q
        /\ pc[p] = "idle"
        /\ loc[p].raised = <<"FileExistsError", 1>>
        /\ Past(pc[q])
        /\ loc[q].node_id = 1

=============================================================================
